---- MODULE Spec2Model ----
(***************************************************************************)
(* Model of src/lib/tcw-auth.ts: the TinyCloud + World authentication      *)
(* pipeline (getWalletAddress, generateSiweWithTCW, signSiweWithWorld,     *)
(* initializeTCWSession, performTCWWorldAuth).                             *)
(*                                                                         *)
(* Strings that the code inspects (addresses) are sequences of one-        *)
(* character strings.  The host wallet (MiniKit) and the session layer     *)
(* (tcw) are external: every read of them returns a value chosen by the    *)
(* environment at the moment of the read.                                  *)
(***************************************************************************)
EXTENDS Integers, Sequences, FiniteSets, TLC

VARIABLES
    window,       \* TRUE iff `typeof window !== "undefined"` in this runtime
    pc,           \* per invocation of performTCWWorldAuth: where it is suspended
    tcwArg,       \* per invocation: the tcw argument
    address,      \* per invocation: const address (line 236)
    siweMessage,  \* per invocation: const siweMessage (line 240)
    signResult,   \* per invocation: const signResult (line 244)
    result,       \* per invocation: what the returned promise settled with
    stages,       \* per invocation: stage functions invoked, in order
    ext,          \* per invocation: external calls made, in order
    genCall,      \* per invocation: arguments of tcw.generateSiweMessage
    signCall,     \* per invocation: arguments of MiniKit.commandsAsync.walletAuth
    signReply,    \* per invocation: what walletAuth settled with
    detected,     \* per invocation: the error as first thrown, before any catch
    failedStage,  \* per invocation: the function the error was thrown in
    reads,        \* per invocation: what MiniKit.isInstalled() and MiniKit.user gave
    direct,       \* the last direct call of an exported stage function
    walletSigned, \* <<statement, signature>> pairs the wallet issued to direct calls
    now,          \* the value of Date.now() at its latest read, in ms
    component,    \* TinyCloudAuth: user, loading, error, tcw, tcwSession (useState)
    handlers      \* invocations a suspended handleTinyCloudAuth is awaiting

vars == <<window, pc, tcwArg, address, siweMessage, signResult, result,
          stages, ext, genCall, signCall, signReply, detected, failedStage,
          reads, direct, walletSigned, now, component, handlers>>

pipelineVars == <<pc, tcwArg, address, siweMessage, signResult, result,
                  stages, ext, genCall, signCall, signReply, detected,
                  failedStage, reads>>

directVars == <<direct, walletSigned>>

componentVars == <<component, handlers>>

----------------------------------------------------------------------------
(* Bounds *)

NumInvocations == 2      \* invocations of performTCWWorldAuth in one behaviour
MaxClock == 2            \* Date.now() ranges over 0..MaxClock

Invocations == 1..NumInvocations
Clock == 0..MaxClock

----------------------------------------------------------------------------
(* Strings *)

AddressLength == 42                       \* line 167: address.length !== 42
Prefix == <<"0", "x">>                    \* line 167: address.startsWith("0x")

Rep(c, n) == [k \in 1..n |-> c]

startsWith(s, p) == Len(s) >= Len(p) /\ SubSeq(s, 1, Len(p)) = p

HexChars == {"0", "1", "2", "3", "4", "5", "6", "7", "8", "9",
             "a", "b", "c", "d", "e", "f", "A", "B", "C", "D", "E", "F"}

\* The format of a WalletAddress: "0x" followed by hexadecimal digits, 42 long.
IsHexAddress(s) ==
    /\ Len(s) = AddressLength
    /\ startsWith(s, Prefix)
    /\ \A k \in (Len(Prefix) + 1)..Len(s) : s[k] \in HexChars

Undefined == <<"undefined">>              \* the JavaScript value undefined
EmptyString == <<>>
Falsy(s) == s = Undefined \/ s = EmptyString

AddrLower == Prefix \o Rep("a", AddressLength - 2)
AddrChecksum == Prefix \o Rep("A", AddressLength - 2)
AddrNonHex == Prefix \o Rep("z", AddressLength - 2)
AddrShort == Prefix \o Rep("a", AddressLength - 3)
AddrLong == Prefix \o Rep("a", AddressLength - 1)
AddrUpperPrefix == <<"0", "X">> \o Rep("a", AddressLength - 2)
AddrNoPrefix == Rep("a", AddressLength)

\* what MiniKit.user?.walletAddress may hold
WalletAddresses == {Undefined, AddrLower, AddrShort}

\* what a direct caller may pass as an address
AnyAddresses == {Undefined, EmptyString, AddrLower, AddrChecksum, AddrNonHex,
                 AddrShort, AddrLong, AddrUpperPrefix, AddrNoPrefix}

NullTcw == "null"
Tcws == {NullTcw, "tcw"}

\* rendered texts and signatures are opaque to the code
Texts == {"T1", "T2"}
Signatures == {"0xsig1", "0xsig2"}
NoText == ""
NoSignature == ""

----------------------------------------------------------------------------
(* Time *)

DayMs == 24 * 60 * 60 * 1000              \* lines 84, 194
MinuteMs == 60 * 1000                     \* lines 85, 195

\* new Date(ms): a Date object holding the instant ms
Date(ms) == [kind |-> "Date", time |-> ms]

\* new Date(ms).toISOString(): the ISO-8601 text of the instant, to the ms
toISOString(ms) == [kind |-> "ISO", time |-> ms]

----------------------------------------------------------------------------
(* Errors *)

NoCause == "none"
NoError == [name |-> "", message |-> "", code |-> "", cause |-> NoCause]

TCWAuthError(message, code, cause) ==
    [name |-> "TCWAuthError", message |-> message, code |-> code, cause |-> cause]

\* an exception that is not an instance of TCWAuthError
ForeignError(message) ==
    [name |-> "Error", message |-> message, code |-> "", cause |-> NoCause]

IsTCWAuthError(e) == e.name = "TCWAuthError"

----------------------------------------------------------------------------
(* External collaborators *)

\* MiniKit.isInstalled(): returns a boolean, or throws
InstalledResults == {"true", "false", "throws"}

\* SimpleSiweMessage: the address field and what prepareMessage() does
NoMessage == [address |-> Undefined, text |-> NoText, renders |-> FALSE]

ToUpper(c) ==
    CASE c = "a" -> "A" [] c = "b" -> "B" [] c = "c" -> "C"
      [] c = "d" -> "D" [] c = "e" -> "E" [] c = "f" -> "F"
      [] OTHER -> c

\* the address in checksum-style capitalisation, as a SIWE library may embed it
Capitalised(a) ==
    [k \in 1..Len(a) |-> IF k <= Len(Prefix) THEN a[k] ELSE ToUpper(a[k])]

\* tcw.generateSiweMessage(address, config): the messages it may resolve with
SessionLayerMessages(a) ==
    {[address |-> e, text |-> t, renders |-> TRUE] :
        e \in {a, Capitalised(a)}, t \in Texts}
    \cup {[address |-> a, text |-> NoText, renders |-> FALSE]}

\* ... or it rejects
SessionLayerResponses(a) ==
    {[threw |-> FALSE, message |-> m] : m \in SessionLayerMessages(a)}
    \cup {[threw |-> TRUE, message |-> NoMessage]}

\* MiniKit.commandsAsync.walletAuth(request): resolves with finalPayload, or rejects
WalletResponses ==
    {[threw |-> FALSE, status |-> "success", signature |-> s] : s \in Signatures}
    \cup {[threw |-> FALSE, status |-> "error", signature |-> NoSignature],
          [threw |-> TRUE, status |-> "", signature |-> NoSignature]}

NoReply == [threw |-> FALSE, status |-> "", signature |-> NoSignature]

\* siweMessage.prepareMessage()
prepareMessage(m) ==
    IF m.renders
      THEN [raw |-> NoError, value |-> m.text]
      ELSE [raw |-> ForeignError("prepareMessage threw"), value |-> NoText]

----------------------------------------------------------------------------
(* getWalletAddress, lines 36-64 *)

getWalletAddressBody(inst, user) ==
    IF inst = "throws"
      THEN [raw |-> ForeignError("isInstalled threw"), value |-> Undefined]
    ELSE IF inst = "false"
      THEN [raw |-> TCWAuthError("MiniKit is not installed",
                                 "MINIKIT_NOT_INSTALLED", NoCause),
            value |-> Undefined]
    ELSE IF Falsy(user)
      THEN [raw |-> TCWAuthError("No wallet address available from MiniKit",
                                 "NO_WALLET_ADDRESS", NoCause),
            value |-> Undefined]
    ELSE [raw |-> NoError, value |-> user]

\* getWalletAddressCatch without the instanceof test of lines 55-57
getWalletAddressCatchWrapsAll(e) ==
    TCWAuthError("Failed to get wallet address", "WALLET_ADDRESS_ERROR", e.message)

\* lines 54-63
getWalletAddressCatch(e) ==
    IF IsTCWAuthError(e) THEN e
    ELSE TCWAuthError("Failed to get wallet address", "WALLET_ADDRESS_ERROR",
                      e.message)

\* the external calls getWalletAddress makes
getWalletAddressCalls(inst) ==
    IF inst = "true" THEN <<"isInstalled", "user">> ELSE <<"isInstalled">>

----------------------------------------------------------------------------
(* generateSiweWithTCW, lines 154-214 *)

\* lines 159-180: the three precondition checks, in code order
generateSiweWithTCWChecks(tcw, a, win) ==
    IF tcw = NullTcw
      THEN TCWAuthError("TCW instance is not available",
                        "TCW_NOT_INITIALIZED", NoCause)
    ELSE IF Falsy(a) \/ ~startsWith(a, Prefix) \/ Len(a) # AddressLength
      THEN TCWAuthError("Invalid Ethereum address format",
                        "INVALID_ADDRESS", NoCause)
    ELSE IF ~win
      THEN TCWAuthError("TCW authentication must be called in browser environment",
                        "NOT_BROWSER_ENVIRONMENT", NoCause)
    ELSE NoError

generateSiweWithTCWCatch(e) ==
    IF IsTCWAuthError(e) THEN e
    ELSE TCWAuthError("Failed to generate SIWE message with TCW",
                      "SIWE_GENERATION_ERROR", e.message)

\* siweMessageConfig with notBefore not backdated
siweMessageConfigNotBackdated(t1, t2) ==
    [statement |-> "Sign in to World Mini App with TinyCloud",
     version |-> "1",
     chainId |-> 1,
     expirationTime |-> toISOString(t1 + DayMs),
     notBefore |-> toISOString(t2)]

\* lines 188-196; t1 and t2 are the values of Date.now() at lines 194 and 195
siweMessageConfig(t1, t2) ==
    [statement |-> "Sign in to World Mini App with TinyCloud",
     version |-> "1",
     chainId |-> 1,
     expirationTime |-> toISOString(t1 + DayMs),
     notBefore |-> toISOString(t2 - MinuteMs)]

NoGenCall == [address |-> Undefined, config |-> siweMessageConfig(0, 0),
              times |-> <<0, 0>>, made |-> FALSE]

----------------------------------------------------------------------------
(* signSiweWithWorld, lines 69-107 *)

\* signSiweWithWorldCheck without the test of lines 73-78
signSiweWithWorldCheckMissing(inst) == NoError

\* lines 73-78
signSiweWithWorldCheck(inst) ==
    IF inst = "throws" THEN ForeignError("isInstalled threw")
    ELSE IF inst = "false"
      THEN TCWAuthError("MiniKit is not installed", "MINIKIT_NOT_INSTALLED", NoCause)
    ELSE NoError

\* lines 81-87; t1 and t2 are the values of Date.now() at lines 84 and 85
walletAuthRequest(message, t1, t2) ==
    [requestId |-> "tcw-auth",
     expirationTime |-> Date(t1 + DayMs),
     notBefore |-> Date(t2 - MinuteMs),
     statement |-> message,
     times |-> <<t1, t2>>,
     made |-> TRUE]

NoSignCall == [requestId |-> "", expirationTime |-> Date(0), notBefore |-> Date(0),
               statement |-> NoText, times |-> <<0, 0>>, made |-> FALSE]

\* lines 81, 89-96: what the awaited walletAuth gives
signSiweWithWorldResume(resp) ==
    IF resp.threw
      THEN [raw |-> ForeignError("walletAuth rejected"), value |-> NoSignature]
    ELSE IF resp.status = "error"
      THEN [raw |-> TCWAuthError("Failed to sign message with World",
                                 "WORLD_SIGN_ERROR", NoCause),
            value |-> NoSignature]
    ELSE [raw |-> NoError, value |-> resp.signature]

signSiweWithWorldCatch(e) ==
    IF IsTCWAuthError(e) THEN e
    ELSE TCWAuthError("Failed to sign SIWE message with World",
                      "WORLD_SIGN_ERROR", e.message)

----------------------------------------------------------------------------
(* initializeTCWSession, lines 112-146 *)

NoSession == [address |-> Undefined, signature |-> NoSignature,
              message |-> NoText,
              tcwSession |-> [initialized |-> FALSE, address |-> Undefined,
                              timestamp |-> 0]]

\* lines 127-138; t is the value of Date.now() at line 130
initializeTCWSessionBody(tcw, m, sig, t) ==
    LET text == prepareMessage(m)
    IN  IF text.raw # NoError
          THEN [raw |-> text.raw, value |-> NoSession]
          ELSE [raw |-> NoError,
                value |-> [address |-> m.address,
                           signature |-> sig,
                           message |-> text.value,
                           tcwSession |-> [initialized |-> TRUE,
                                           address |-> m.address,
                                           timestamp |-> t]]]

\* lines 139-145: no instanceof test, every exception is wrapped
initializeTCWSessionCatch(e) ==
    TCWAuthError("Failed to initialize TCW session", "TCW_SESSION_INIT_ERROR",
                 e.message)

----------------------------------------------------------------------------
(* performTCWWorldAuth, lines 221-266 *)

\* performTCWWorldAuthGate without the test of lines 226-231
GateMissing(win) == NoError

\* lines 226-231
performTCWWorldAuthGate(win) ==
    IF ~win
      THEN TCWAuthError("TCW + World authentication can only be performed in browser environment",
                        "NOT_BROWSER_ENVIRONMENT", NoCause)
      ELSE NoError

\* performTCWWorldAuthCatch wrapping in a plain Error instead of a TCWAuthError
CatchWrapsPlain(e) ==
    IF IsTCWAuthError(e) THEN e
    ELSE ForeignError("TCW + World authentication flow failed")

\* performTCWWorldAuthCatch rethrowing whatever it caught
CatchRethrows(e) == e

\* performTCWWorldAuthCatch without the instanceof test of lines 257-259
CatchAlwaysWraps(e) ==
    TCWAuthError("TCW + World authentication flow failed", "AUTH_FLOW_ERROR",
                 e.message)

\* lines 256-265
performTCWWorldAuthCatch(e) ==
    IF IsTCWAuthError(e) THEN e
    ELSE TCWAuthError("TCW + World authentication flow failed", "AUTH_FLOW_ERROR",
                      e.message)

Pending == [status |-> "pending", session |-> NoSession, error |-> NoError]
Returned(s) == [status |-> "returned", session |-> s, error |-> NoError]
Threw(e) == [status |-> "threw", session |-> NoSession, error |-> e]

----------------------------------------------------------------------------
(* TinyCloudAuth, lines 278-409: the values of its state *)

\* useState<User | null>(null), line 279
NoUser == [set |-> FALSE, walletAddress |-> Undefined]

\* useState<TCWAuthSession | null>(null), line 283
NoTcwSession == [set |-> FALSE, session |-> NoSession]

\* useState<string | null>(null), line 281; a text is a sequence of its parts
NoErrorText == <<>>

----------------------------------------------------------------------------
(* Initial state *)

\* nothing read from MiniKit yet
NoReads == [installed |-> <<>>, user |-> Undefined]

NoDirect == [op |-> "none", tcw |-> NullTcw, address |-> Undefined,
             message |-> NoMessage, text |-> NoText, signature |-> NoSignature,
             window |-> FALSE, error |-> NoError, raw |-> NoError,
             session |-> NoSession, called |-> <<>>]

Init ==
    /\ window \in BOOLEAN
    /\ pc = [i \in Invocations |-> "idle"]
    /\ tcwArg = [i \in Invocations |-> NullTcw]
    /\ address = [i \in Invocations |-> Undefined]
    /\ siweMessage = [i \in Invocations |-> NoMessage]
    /\ signResult = [i \in Invocations |-> NoSignature]
    /\ result = [i \in Invocations |-> Pending]
    /\ stages = [i \in Invocations |-> <<>>]
    /\ ext = [i \in Invocations |-> <<>>]
    /\ genCall = [i \in Invocations |-> NoGenCall]
    /\ signCall = [i \in Invocations |-> NoSignCall]
    /\ signReply = [i \in Invocations |-> NoReply]
    /\ detected = [i \in Invocations |-> NoError]
    /\ failedStage = [i \in Invocations |-> "none"]
    /\ reads = [i \in Invocations |-> NoReads]
    /\ direct = NoDirect
    /\ walletSigned = {}
    /\ now = 0
    /\ component = [user |-> NoUser, loading |-> FALSE, error |-> NoErrorText,
                    tcw |-> NullTcw, tcwSession |-> NoTcwSession,
                    initTCW |-> "pending"]
    /\ handlers = {}

----------------------------------------------------------------------------
(* One invocation of performTCWWorldAuth, from suspension point to          *)
(* suspension point                                                         *)

\* Fail with the failure of stage 3 swallowed: the run goes on to stage 4
FailAndContinue(i, stage, raw, stageError) ==
    /\ pc' = [pc EXCEPT ![i] = IF stage = "signSiweWithWorld"
                                 THEN "messageSigned" ELSE "done"]
    /\ detected' = [detected EXCEPT ![i] = raw]
    /\ failedStage' = [failedStage EXCEPT ![i] = stage]
    /\ result' = [result EXCEPT ![i] = Threw(stageError)]

\* the promise of invocation i rejects: raw was thrown in function stage,
\* stageError is what left that function's catch clause (lines 256-265 come
\* after it)
Fail(i, stage, raw, stageError) ==
    /\ pc' = [pc EXCEPT ![i] = "done"]
    /\ detected' = [detected EXCEPT ![i] = raw]
    /\ failedStage' = [failedStage EXCEPT ![i] = stage]
    /\ result' = [result EXCEPT ![i] = Threw(performTCWWorldAuthCatch(stageError))]

\* lines 221-236: the call, the window gate and stage 1 (getWalletAddress has
\* no await of its own)
Invoke(i, tcw) ==
    /\ pc[i] = "idle"
    /\ tcwArg' = [tcwArg EXCEPT ![i] = tcw]
    /\ LET gate == performTCWWorldAuthGate(window)
       IN  IF gate # NoError
             THEN /\ Fail(i, "performTCWWorldAuth", gate, gate)
                  /\ UNCHANGED <<address, stages, ext, reads>>
             ELSE \E inst \in InstalledResults, user \in WalletAddresses :
                    LET body == getWalletAddressBody(inst, user)
                    IN  /\ stages' = [stages EXCEPT ![i] = Append(@, "getWalletAddress")]
                        /\ ext' = [ext EXCEPT ![i] = @ \o getWalletAddressCalls(inst)]
                        /\ reads' = [reads EXCEPT ![i] =
                                       [installed |-> <<inst>>,
                                        user |-> IF inst = "true" THEN user
                                                 ELSE Undefined]]
                        /\ IF body.raw # NoError
                             THEN /\ Fail(i, "getWalletAddress", body.raw, getWalletAddressCatch(body.raw))
                                  /\ UNCHANGED address
                             ELSE /\ address' = [address EXCEPT ![i] = body.value]
                                  /\ pc' = [pc EXCEPT ![i] = "addressObtained"]
                                  /\ UNCHANGED <<detected, failedStage, result>>
    /\ UNCHANGED <<window, siweMessage, signResult, genCall, signCall, signReply,
                   directVars, now>>

\* lines 240, 158-201: stage 2 up to the await of tcw.generateSiweMessage;
\* t1 and t2 are what Date.now() gives at lines 194 and 195
Generate(i, t1, t2) ==
    /\ pc[i] = "addressObtained"
    /\ now <= t1 /\ t1 <= t2 /\ t2 \in Clock
    /\ stages' = [stages EXCEPT ![i] = Append(@, "generateSiweWithTCW")]
    /\ LET check == generateSiweWithTCWChecks(tcwArg[i], address[i], window)
       IN  IF check # NoError
             THEN /\ Fail(i, "generateSiweWithTCW", check, generateSiweWithTCWCatch(check))
                  /\ UNCHANGED <<ext, genCall, now>>
             ELSE /\ ext' = [ext EXCEPT ![i] = Append(@, "generateSiweMessage")]
                  /\ genCall' = [genCall EXCEPT ![i] =
                                   [address |-> address[i],
                                    config |-> siweMessageConfig(t1, t2),
                                    times |-> <<t1, t2>>,
                                    made |-> TRUE]]
                  /\ now' = t2
                  /\ pc' = [pc EXCEPT ![i] = "generating"]
                  /\ UNCHANGED <<detected, failedStage, result>>
    /\ UNCHANGED <<window, tcwArg, address, siweMessage, signResult, signCall,
                   signReply, reads, directVars, componentVars>>

\* lines 198-213: tcw.generateSiweMessage settles
Generated(i, resp) ==
    /\ pc[i] = "generating"
    /\ resp \in SessionLayerResponses(genCall[i].address)
    /\ IF resp.threw
         THEN /\ Fail(i, "generateSiweWithTCW",
                      ForeignError("generateSiweMessage rejected"),
                      generateSiweWithTCWCatch(ForeignError("generateSiweMessage rejected")))
              /\ UNCHANGED siweMessage
         ELSE /\ siweMessage' = [siweMessage EXCEPT ![i] = resp.message]
              /\ pc' = [pc EXCEPT ![i] = "messageGenerated"]
              /\ UNCHANGED <<detected, failedStage, result>>
    /\ UNCHANGED <<window, tcwArg, address, signResult, stages, ext, genCall,
                   signCall, signReply, reads, directVars, componentVars, now>>

\* lines 244, 72-87: the rendering and stage 3 up to the await of walletAuth;
\* t1 and t2 are what Date.now() gives at lines 84 and 85
Sign(i, t1, t2) ==
    /\ pc[i] = "messageGenerated"
    /\ now <= t1 /\ t1 <= t2 /\ t2 \in Clock
    /\ LET text == prepareMessage(siweMessage[i])
       IN  IF text.raw # NoError
             THEN /\ Fail(i, "performTCWWorldAuth", text.raw, text.raw)
                  /\ ext' = [ext EXCEPT ![i] = Append(@, "prepareMessage")]
                  /\ UNCHANGED <<stages, signCall, reads, now>>
             ELSE \E inst \in InstalledResults :
                    LET check == signSiweWithWorldCheck(inst)
                    IN  /\ stages' = [stages EXCEPT ![i] = Append(@, "signSiweWithWorld")]
                        /\ reads' = [reads EXCEPT ![i].installed = Append(@, inst)]
                        /\ IF check # NoError
                             THEN /\ Fail(i, "signSiweWithWorld", check, signSiweWithWorldCatch(check))
                                  /\ ext' = [ext EXCEPT ![i] =
                                               @ \o <<"prepareMessage", "isInstalled">>]
                                  /\ UNCHANGED <<signCall, now>>
                             ELSE /\ ext' = [ext EXCEPT ![i] =
                                               @ \o <<"prepareMessage", "isInstalled",
                                                      "walletAuth">>]
                                  /\ signCall' = [signCall EXCEPT ![i] =
                                                    walletAuthRequest(text.value, t1, t2)]
                                  /\ now' = t2
                                  /\ pc' = [pc EXCEPT ![i] = "signing"]
                                  /\ UNCHANGED <<detected, failedStage, result>>
    /\ UNCHANGED <<window, tcwArg, address, siweMessage, signResult, genCall,
                   signReply, directVars, componentVars>>

\* Signed keeping the signature in one module-level variable that every
\* invocation reads
SignedShared(i, resp) ==
    /\ pc[i] = "signing"
    /\ resp \in WalletResponses
    /\ signReply' = [signReply EXCEPT ![i] = resp]
    /\ LET resume == signSiweWithWorldResume(resp)
       IN  IF resume.raw # NoError
             THEN /\ pc' = [pc EXCEPT ![i] = "done"]
                  /\ detected' = [detected EXCEPT ![i] = resume.raw]
                  /\ failedStage' = [failedStage EXCEPT ![i] = "signSiweWithWorld"]
                  /\ result' = [result EXCEPT ![i] =
                                  Threw(signSiweWithWorldCatch(resume.raw))]
                  /\ UNCHANGED signResult
             ELSE /\ signResult' = [j \in Invocations |-> resume.value]
                  /\ pc' = [pc EXCEPT ![i] = "messageSigned"]
                  /\ UNCHANGED <<detected, failedStage, result>>
    /\ UNCHANGED <<window, tcwArg, address, siweMessage, stages, ext, genCall,
                   signCall, reads, directVars, componentVars, now>>

\* Signed with a retry: an error status sends the run back to sign again
SignedWithRetry(i, resp) ==
    /\ pc[i] = "signing"
    /\ resp \in WalletResponses
    /\ signReply' = [signReply EXCEPT ![i] = resp]
    /\ IF ~resp.threw /\ resp.status = "success"
         THEN /\ signResult' = [signResult EXCEPT ![i] = resp.signature]
              /\ pc' = [pc EXCEPT ![i] = "messageSigned"]
         ELSE /\ pc' = [pc EXCEPT ![i] = "messageGenerated"]
              /\ UNCHANGED signResult
    /\ UNCHANGED <<window, tcwArg, address, siweMessage, stages, ext, genCall,
                   signCall, detected, failedStage, result, reads, directVars, componentVars, now>>

\* lines 81-106: walletAuth settles
Signed(i, resp) ==
    /\ pc[i] = "signing"
    /\ resp \in WalletResponses
    /\ signReply' = [signReply EXCEPT ![i] = resp]
    /\ LET resume == signSiweWithWorldResume(resp)
       IN  IF resume.raw # NoError
             THEN /\ Fail(i, "signSiweWithWorld", resume.raw,
                       signSiweWithWorldCatch(resume.raw))
                  /\ UNCHANGED signResult
             ELSE /\ signResult' = [signResult EXCEPT ![i] = resume.value]
                  /\ pc' = [pc EXCEPT ![i] = "messageSigned"]
                  /\ UNCHANGED <<detected, failedStage, result>>
    /\ UNCHANGED <<window, tcwArg, address, siweMessage, stages, ext, genCall,
                   signCall, reads, directVars, componentVars, now>>

\* lines 248-255, 117-145: stage 4 and the return; t is what Date.now()
\* gives at line 130
Initialize(i, t) ==
    /\ pc[i] = "messageSigned"
    /\ now <= t /\ t \in Clock
    /\ now' = t
    /\ stages' = [stages EXCEPT ![i] = Append(@, "initializeTCWSession")]
    /\ ext' = [ext EXCEPT ![i] = Append(@, "prepareMessage")]
    /\ LET body == initializeTCWSessionBody(tcwArg[i], siweMessage[i], signResult[i], t)
       IN  IF body.raw # NoError
             THEN Fail(i, "initializeTCWSession", body.raw,
                       initializeTCWSessionCatch(body.raw))
             ELSE /\ result' = [result EXCEPT ![i] = Returned(body.value)]
                  /\ pc' = [pc EXCEPT ![i] = "done"]
                  /\ UNCHANGED <<detected, failedStage>>
    /\ UNCHANGED <<window, tcwArg, address, siweMessage, signResult, genCall,
                   signCall, signReply, reads, directVars, componentVars>>

\* interleaved invocations, the clock standing still
Next ==
    \E i \in Invocations :
        \/ \E tcw \in Tcws : Invoke(i, tcw) /\ UNCHANGED componentVars
        \/ Generate(i, now, now)
        \/ \E resp \in SessionLayerResponses(genCall[i].address) : Generated(i, resp)
        \/ Sign(i, now, now)
        \/ \E resp \in WalletResponses : Signed(i, resp)
        \/ Initialize(i, now)

Spec == Init /\ [][Next]_vars

\* one invocation under a clock that may advance before and between any two
\* reads of Date.now()
NextClock ==
    \/ \E tcw \in Tcws : Invoke(1, tcw) /\ UNCHANGED componentVars
    \/ \E t1, t2 \in Clock : Generate(1, t1, t2)
    \/ \E resp \in SessionLayerResponses(genCall[1].address) : Generated(1, resp)
    \/ \E t1, t2 \in Clock : Sign(1, t1, t2)
    \/ \E resp \in WalletResponses : Signed(1, resp)
    \/ \E t \in Clock : Initialize(1, t)

SpecClock == Init /\ [][NextClock]_vars

----------------------------------------------------------------------------
(* The TinyCloudAuth component, lines 278-409.  State updates made in one   *)
(* run of a handler are rendered together before the next event.            *)

\* lines 286-302: the effect that loads the SDK; ok is whether the import and
\* the constructor succeed
initTCW(ok) ==
    /\ component.initTCW = "pending"
    /\ component' = IF ok
                      THEN [component EXCEPT !.initTCW = "done", !.tcw = "tcw"]
                      ELSE [component EXCEPT
                              !.initTCW = "done",
                              !.error = <<"Failed to initialize TinyCloud Web SDK">>]
    /\ UNCHANGED <<window, pipelineVars, directVars, now, handlers>>

\* the sign-in button without its disabled attribute
ButtonNotDisabled == ~component.user.set

\* lines 356-359: the sign-in button is rendered and not disabled
ButtonEnabled ==
    /\ ~component.user.set
    /\ ~(component.loading \/ component.tcw = NullTcw)

\* lines 304-315: a click on the sign-in button runs handleTinyCloudAuth up to
\* its await; i is the invocation of performTCWWorldAuth it starts
handleTinyCloudAuth(i) ==
    /\ ButtonEnabled
    /\ pc[i] = "idle"
    /\ \A j \in Invocations : j < i => pc[j] # "idle"
    /\ IF component.tcw = NullTcw
         THEN /\ component' = [component EXCEPT
                                 !.error = <<"TinyCloud Web SDK not initialized">>]
              /\ UNCHANGED <<window, pipelineVars, directVars, now, handlers>>
         ELSE /\ component' = [component EXCEPT !.loading = TRUE,
                                                !.error = NoErrorText]
              /\ handlers' = handlers \cup {i}
              /\ Invoke(i, component.tcw)

\* handleTinyCloudAuthResume without the finally clause: a failure leaves
\* loading as it is
handleTinyCloudAuthResumeNoFinally(i) ==
    /\ i \in handlers
    /\ pc[i] = "done"
    /\ handlers' = handlers \ {i}
    /\ IF result[i].status = "returned"
         THEN component' = [component EXCEPT
                              !.tcwSession = [set |-> TRUE,
                                              session |-> result[i].session],
                              !.user = [set |-> TRUE,
                                        walletAddress |-> result[i].session.address],
                              !.loading = FALSE]
         ELSE component' = [component EXCEPT
                              !.error = <<"Authentication failed: ",
                                          result[i].error.message>>]
    /\ UNCHANGED <<window, pipelineVars, directVars, now>>

\* lines 315-339: handleTinyCloudAuth resumes when the promise of
\* performTCWWorldAuth has settled
handleTinyCloudAuthResume(i) ==
    /\ i \in handlers
    /\ pc[i] = "done"
    /\ handlers' = handlers \ {i}
    /\ IF result[i].status = "returned"
         THEN component' = [component EXCEPT
                              !.tcwSession = [set |-> TRUE,
                                              session |-> result[i].session],
                              !.user = [set |-> TRUE,
                                        walletAddress |-> result[i].session.address],
                              !.loading = FALSE]
         ELSE component' = [component EXCEPT
                              !.error = IF IsTCWAuthError(result[i].error)
                                          THEN <<"Authentication failed: ",
                                                 result[i].error.message>>
                                          ELSE <<"Authentication failed. Please try again.">>,
                              !.loading = FALSE]
    /\ UNCHANGED <<window, pipelineVars, directVars, now>>

\* handleSignOut without setTcwSession(null)
handleSignOutKeepsSession ==
    /\ component.user.set
    /\ component' = [component EXCEPT !.user = NoUser, !.error = NoErrorText]
    /\ UNCHANGED <<window, pipelineVars, directVars, now, handlers>>

\* lines 342-346, 397-404: a click on the sign-out button
handleSignOut ==
    /\ component.user.set
    /\ component' = [component EXCEPT !.user = NoUser,
                                      !.tcwSession = NoTcwSession,
                                      !.error = NoErrorText]
    /\ UNCHANGED <<window, pipelineVars, directVars, now, handlers>>

\* the component in a browser; the pipeline moves only for the invocations
\* the component started
NextComponent ==
    \/ \E ok \in BOOLEAN : initTCW(ok)
    \/ handleSignOut
    \/ \E i \in Invocations :
         \/ handleTinyCloudAuth(i)
         \/ handleTinyCloudAuthResume(i)
         \/ Generate(i, now, now)
         \/ \E resp \in SessionLayerResponses(genCall[i].address) : Generated(i, resp)
         \/ Sign(i, now, now)
         \/ \E resp \in WalletResponses : Signed(i, resp)
         \/ Initialize(i, now)

\* the component runs its handlers in a browser
InitComponent == Init /\ window = TRUE

SpecComponent == InitComponent /\ [][NextComponent]_vars

----------------------------------------------------------------------------
(* The exported stage functions, called directly.  Each action is one call  *)
(* run to completion; direct records its arguments and its outcome.         *)

\* a signature that no wallet produced
ForgedSignature == "0xforged"

\* the SimpleSiweMessage values a caller may pass
AnyMessages ==
    {[address |-> a, text |-> t, renders |-> TRUE] :
        a \in {AddrLower, AddrChecksum, AddrShort}, t \in Texts}
    \cup {[address |-> AddrLower, text |-> NoText, renders |-> FALSE]}

\* lines 36-64
CallGetWalletAddress ==
    /\ \E inst \in InstalledResults, user \in WalletAddresses :
         LET body == getWalletAddressBody(inst, user)
         IN  direct' = [NoDirect EXCEPT
                          !.op = "getWalletAddress",
                          !.window = window,
                          !.raw = body.raw,
                          !.error = IF body.raw = NoError THEN NoError
                                    ELSE getWalletAddressCatch(body.raw),
                          !.address = body.value,
                          !.called = getWalletAddressCalls(inst)]
    /\ UNCHANGED <<window, componentVars, pipelineVars, walletSigned, now>>

\* lines 154-214
CallGenerateSiweWithTCW(tcw, a) ==
    /\ LET check == generateSiweWithTCWChecks(tcw, a, window)
           call == [NoDirect EXCEPT !.op = "generateSiweWithTCW", !.window = window,
                                    !.tcw = tcw, !.address = a]
       IN  IF check # NoError
             THEN direct' = [call EXCEPT !.raw = check,
                                         !.error = generateSiweWithTCWCatch(check)]
             ELSE \E resp \in SessionLayerResponses(a) :
                    IF resp.threw
                      THEN direct' =
                             [call EXCEPT
                                !.called = <<"generateSiweMessage">>,
                                !.raw = ForeignError("generateSiweMessage rejected"),
                                !.error = generateSiweWithTCWCatch(
                                            ForeignError("generateSiweMessage rejected"))]
                      ELSE direct' =
                             [call EXCEPT !.called = <<"generateSiweMessage">>,
                                          !.message = resp.message]
    /\ UNCHANGED <<window, componentVars, pipelineVars, walletSigned, now>>

\* lines 69-107
CallSignSiweWithWorld(text) ==
    /\ \E inst \in InstalledResults :
         LET check == signSiweWithWorldCheck(inst)
             call == [NoDirect EXCEPT !.op = "signSiweWithWorld", !.window = window,
                                      !.text = text]
         IN  IF check # NoError
               THEN /\ direct' = [call EXCEPT !.called = <<"isInstalled">>,
                                              !.raw = check,
                                              !.error = signSiweWithWorldCatch(check)]
                    /\ UNCHANGED walletSigned
               ELSE \E resp \in WalletResponses :
                      LET resume == signSiweWithWorldResume(resp)
                      IN  /\ direct' =
                               [call EXCEPT
                                  !.called = <<"isInstalled", "walletAuth">>,
                                  !.raw = resume.raw,
                                  !.error = IF resume.raw = NoError THEN NoError
                                            ELSE signSiweWithWorldCatch(resume.raw),
                                  !.signature = resume.value]
                          /\ walletSigned' =
                               IF ~resp.threw /\ resp.status = "success"
                                 THEN walletSigned \cup {<<text, resp.signature>>}
                                 ELSE walletSigned
    /\ UNCHANGED <<window, componentVars, pipelineVars, now>>

\* lines 112-146
CallInitializeTCWSession(tcw, m, sig) ==
    /\ LET body == initializeTCWSessionBody(tcw, m, sig, now)
       IN  direct' = [NoDirect EXCEPT
                        !.op = "initializeTCWSession",
                        !.window = window,
                        !.tcw = tcw,
                        !.message = m,
                        !.signature = sig,
                        !.called = <<"prepareMessage">>,
                        !.raw = body.raw,
                        !.error = IF body.raw = NoError THEN NoError
                                  ELSE initializeTCWSessionCatch(body.raw),
                        !.session = body.value]
    /\ UNCHANGED <<window, componentVars, pipelineVars, walletSigned, now>>

NextStages ==
    \/ CallGetWalletAddress
    \/ \E tcw \in Tcws, a \in AnyAddresses : CallGenerateSiweWithTCW(tcw, a)
    \/ \E text \in Texts : CallSignSiweWithWorld(text)
    \/ \E tcw \in Tcws, m \in AnyMessages, sig \in Signatures \cup {ForgedSignature} :
         CallInitializeTCWSession(tcw, m, sig)

SpecStages == Init /\ [][NextStages]_vars

----------------------------------------------------------------------------
(* Properties *)

AllStages == <<"getWalletAddress", "generateSiweWithTCW", "signSiweWithWorld",
               "initializeTCWSession">>

StageIndex(name) == CHOOSE k \in DOMAIN AllStages : AllStages[k] = name

IsPrefix(s, t) == Len(s) <= Len(t) /\ SubSeq(t, 1, Len(s)) = s

Count(seq, x) == Cardinality({k \in DOMAIN seq : seq[k] = x})

Invoked(i, name) == \E k \in DOMAIN stages[i] : stages[i][k] = name

\* C1: when a stage of an invocation fails, no stage after it is invoked in
\* that invocation; after a failure of getWalletAddress none of
\* generateSiweWithTCW, signSiweWithWorld, initializeTCWSession is invoked.
C1_ShortCircuit ==
    \A i \in Invocations :
        /\ \A k \in DOMAIN AllStages :
             failedStage[i] = AllStages[k]
               => \A j \in DOMAIN stages[i] : StageIndex(stages[i][j]) <= k
        /\ failedStage[i] = "getWalletAddress" => stages[i] = <<"getWalletAddress">>

C1_Witness ==
    \E i \in Invocations :
        /\ pc[i] = "done"
        /\ failedStage[i] = "getWalletAddress"
        /\ result[i].status = "threw"

\* C2: the stages of an invocation run in the order address retrieval, message
\* generation, signing, session initialization; a stage starts only when the
\* previous one has produced its value; each stage and each of the external
\* calls user, generateSiweMessage, walletAuth happens at most once; a failed
\* invocation is finished.
C2_StrictSequence ==
    \A i \in Invocations :
        /\ IsPrefix(stages[i], AllStages)
        /\ \A op \in {"user", "generateSiweMessage", "walletAuth"} :
             Count(ext[i], op) <= 1
        /\ Len(stages[i]) >= 2 => ~Falsy(address[i])
        /\ Len(stages[i]) >= 3 => siweMessage[i] # NoMessage /\ genCall[i].made
        /\ Len(stages[i]) >= 4 => signResult[i] # NoSignature /\ signCall[i].made
        /\ pc[i] = "addressObtained" => Len(stages[i]) = 1
        /\ pc[i] \in {"generating", "messageGenerated"} => Len(stages[i]) = 2
        /\ pc[i] \in {"signing", "messageSigned"} => Len(stages[i]) = 3
        /\ result[i].status = "threw" => pc[i] = "done"
        /\ result[i].status = "returned" => pc[i] = "done" /\ stages[i] = AllStages

C2_Witness ==
    \E i \in Invocations :
        /\ stages[i] = AllStages
        /\ result[i].status = "returned"

\* C3: when walletAuth resolves with status "error" the invocation fails with
\* a classified error whose code differs from the code given to an unexpected
\* exception thrown during signing, and initializeTCWSession is not invoked.
C3_SigningRejectedDistinct ==
    \A i \in Invocations :
        (pc[i] = "done" /\ ~signReply[i].threw /\ signReply[i].status = "error")
          => /\ result[i].status = "threw"
             /\ IsTCWAuthError(result[i].error)
             /\ result[i].error.code
                  # signSiweWithWorldCatch(ForeignError("unexpected")).code
             /\ ~Invoked(i, "initializeTCWSession")

\* C4: generateSiweWithTCW called with a non-null tcw and an address that is
\* not "0x" followed by 40 hexadecimal digits fails with INVALID_ADDRESS and
\* never calls tcw.generateSiweMessage.
C4_InvalidAddressRejected ==
    (/\ direct.op = "generateSiweWithTCW"
     /\ direct.tcw # NullTcw
     /\ ~IsHexAddress(direct.address))
      => /\ direct.error.code = "INVALID_ADDRESS"
         /\ direct.called = <<>>

\* C5: generateSiweWithTCW reports the first violated precondition in the
\* order tcw non-null, address format, browser environment, and calls the
\* session layer in none of the three cases.
C5_PreconditionOrder ==
    direct.op = "generateSiweWithTCW"
      => /\ direct.tcw = NullTcw
              => /\ direct.error.code = "TCW_NOT_INITIALIZED"
                 /\ direct.called = <<>>
         /\ (direct.tcw # NullTcw /\ ~IsHexAddress(direct.address))
              => /\ direct.error.code = "INVALID_ADDRESS"
                 /\ direct.called = <<>>
         /\ (direct.tcw # NullTcw /\ IsHexAddress(direct.address) /\ ~direct.window)
              => /\ direct.error.code = "NOT_BROWSER_ENVIRONMENT"
                 /\ direct.called = <<>>

\* C6: without a window an invocation fails with NOT_BROWSER_ENVIRONMENT
\* before stage 1: no stage is invoked and neither MiniKit nor tcw is called.
C6_NoWindowFailsFast ==
    \A i \in Invocations :
        (~window /\ pc[i] # "idle")
          => /\ pc[i] = "done"
             /\ result[i].status = "threw"
             /\ IsTCWAuthError(result[i].error)
             /\ result[i].error.code = "NOT_BROWSER_ENVIRONMENT"
             /\ stages[i] = <<>>
             /\ ext[i] = <<>>
             /\ ~genCall[i].made
             /\ ~signCall[i].made

C6_Witness ==
    /\ ~window
    /\ \E i \in Invocations : pc[i] = "done" /\ failedStage[i] = "performTCWWorldAuth"

\* C7: an error that was thrown as a TCWAuthError reaches the caller of
\* performTCWWorldAuth with the same code, message and cause, and is never
\* turned into AUTH_FLOW_ERROR.
C7_ClassifiedErrorUnchanged ==
    \A i \in Invocations :
        (result[i].status = "threw" /\ IsTCWAuthError(detected[i]))
          => /\ result[i].error = detected[i]
             /\ result[i].error.code # "AUTH_FLOW_ERROR"

C7_Witness ==
    \E i \in Invocations :
        /\ result[i].status = "threw"
        /\ failedStage[i] = "generateSiweWithTCW"
        /\ IsTCWAuthError(detected[i])
        /\ result[i].error.code = "INVALID_ADDRESS"

\* the host wallet issued sig for a walletAuth request whose statement is text
WalletProduced(text, sig) ==
    \/ <<text, sig>> \in walletSigned
    \/ \E i \in Invocations :
         /\ signCall[i].made /\ signCall[i].statement = text
         /\ ~signReply[i].threw /\ signReply[i].status = "success"
         /\ signReply[i].signature = sig

\* C8: every AuthSession returned by the module has the address of the
\* sign-in message whose rendering is its message field, and a signature that
\* the host wallet produced for exactly that rendered text.
C8_SessionBoundToSignedText ==
    /\ \A i \in Invocations :
         result[i].status = "returned"
           => /\ result[i].session.address = siweMessage[i].address
              /\ result[i].session.message = siweMessage[i].text
              /\ WalletProduced(result[i].session.message,
                                result[i].session.signature)
    /\ (direct.op = "initializeTCWSession" /\ direct.error = NoError)
           => /\ direct.session.address = direct.message.address
              /\ direct.session.message = direct.message.text
              /\ WalletProduced(direct.session.message, direct.session.signature)

\* C9: an AuthSession is obtained only as the result of an invocation in which
\* address retrieval, message generation and signing succeeded, in that
\* order, before session initialization.
C9_OnlyViaFullPipeline ==
    (direct.op = "initializeTCWSession" /\ direct.error = NoError)
      => \E i \in Invocations :
           /\ stages[i] = AllStages
           /\ result[i] = Returned(direct.session)

\* C10: a successful invocation returns the address the wallet returned in
\* stage 1, the signature the wallet returned in stage 3, the rendered text
\* of the message of stage 2 and the handle made in stage 4.
C10_EndToEndResult ==
    \A i \in Invocations :
        result[i].status = "returned"
          => /\ result[i].session.address = address[i]
             /\ result[i].session.signature = signReply[i].signature
             /\ result[i].session.message = prepareMessage(siweMessage[i]).value
             /\ result[i].session.tcwSession.initialized

\* the codes of the TCWAuthErrors the module constructs
ErrorCodes == {"MINIKIT_NOT_INSTALLED", "NO_WALLET_ADDRESS", "WALLET_ADDRESS_ERROR",
               "WORLD_SIGN_ERROR", "TCW_SESSION_INIT_ERROR", "TCW_NOT_INITIALIZED",
               "INVALID_ADDRESS", "NOT_BROWSER_ENVIRONMENT", "SIWE_GENERATION_ERROR",
               "AUTH_FLOW_ERROR"}

Failed(i, code) ==
    /\ pc[i] = "done"
    /\ result[i].status = "threw"
    /\ IsTCWAuthError(result[i].error)
    /\ result[i].error.code = code

\* C11: getWalletAddress fails with MINIKIT_NOT_INSTALLED when isInstalled()
\* is false, with NO_WALLET_ADDRESS when it is true and the user has no wallet
\* address, with WALLET_ADDRESS_ERROR carrying the cause on any other
\* exception; when isInstalled() is false at address retrieval the invocation
\* fails with MINIKIT_NOT_INSTALLED and no further stage is invoked.
C11_WalletAddressFailures ==
    \A i \in Invocations :
        Len(reads[i].installed) >= 1
          => /\ reads[i].installed[1] = "false"
                  => /\ Failed(i, "MINIKIT_NOT_INSTALLED")
                     /\ result[i].error.cause = NoCause
                     /\ failedStage[i] = "getWalletAddress"
                     /\ stages[i] = <<"getWalletAddress">>
             /\ (reads[i].installed[1] = "true" /\ Falsy(reads[i].user))
                  => /\ Failed(i, "NO_WALLET_ADDRESS")
                     /\ result[i].error.cause = NoCause
                     /\ stages[i] = <<"getWalletAddress">>
             /\ reads[i].installed[1] = "throws"
                  => /\ Failed(i, "WALLET_ADDRESS_ERROR")
                     /\ ~IsTCWAuthError(detected[i])
                     /\ result[i].error.cause = detected[i].message
                     /\ stages[i] = <<"getWalletAddress">>
             /\ (reads[i].installed[1] = "true" /\ ~Falsy(reads[i].user))
                  => /\ address[i] = reads[i].user
                     /\ failedStage[i] # "getWalletAddress"

C11_Witness ==
    \E i \in Invocations :
        /\ reads[i].installed = <<"false">>
        /\ Failed(i, "MINIKIT_NOT_INSTALLED")

\* C12: when isInstalled() was true at address retrieval and is false at
\* signing, no walletAuth request is sent, the invocation fails with
\* MINIKIT_NOT_INSTALLED and initializeTCWSession is not invoked.
C12_RecheckAtSigning ==
    \A i \in Invocations :
        (/\ Len(reads[i].installed) = 2
         /\ reads[i].installed[1] = "true"
         /\ reads[i].installed[2] = "false")
          => /\ ~signCall[i].made
             /\ Count(ext[i], "walletAuth") = 0
             /\ Failed(i, "MINIKIT_NOT_INSTALLED")
             /\ failedStage[i] = "signSiweWithWorld"
             /\ ~Invoked(i, "initializeTCWSession")

C12_Witness ==
    \E i \in Invocations :
        /\ reads[i].installed = <<"true", "false">>
        /\ pc[i] = "done"

\* C13: a completed invocation either returned an AuthSession after all four
\* stages without any error, or threw a TCWAuthError with one of the module's
\* codes; an error thrown between the stages that is not a TCWAuthError comes
\* out as AUTH_FLOW_ERROR with that error as its cause.
C13_ReturnsOrClassified ==
    \A i \in Invocations :
        /\ pc[i] = "done"
             => \/ /\ result[i].status = "returned"
                   /\ failedStage[i] = "none"
                   /\ detected[i] = NoError
                   /\ stages[i] = AllStages
                \/ /\ result[i].status = "threw"
                   /\ IsTCWAuthError(result[i].error)
                   /\ result[i].error.code \in ErrorCodes
                   /\ failedStage[i] # "none"
        /\ (/\ pc[i] = "done"
            /\ failedStage[i] = "performTCWWorldAuth"
            /\ ~IsTCWAuthError(detected[i]))
             => /\ result[i].error.code = "AUTH_FLOW_ERROR"
                /\ result[i].error.cause = detected[i].message

C13_Witness ==
    \E i \in Invocations :
        /\ Failed(i, "AUTH_FLOW_ERROR")
        /\ failedStage[i] = "performTCWWorldAuth"
        /\ detected[i] = ForeignError("prepareMessage threw")

\* everything an invocation holds besides its position
Own(i) == <<tcwArg[i], address[i], siweMessage[i], signResult[i], result[i],
            stages[i], ext[i], genCall[i], signCall[i], signReply[i],
            detected[i], failedStage[i], reads[i]>>

\* C14: interleaved invocations share no state: a step of one invocation
\* changes nothing that another invocation holds, and a returned AuthSession
\* is made of the message and the signature its own invocation received.
C14_Independent ==
    /\ [][/\ Cardinality({j \in Invocations : pc'[j] # pc[j]}) <= 1
          /\ \A j \in Invocations : pc'[j] = pc[j] => Own(j)' = Own(j)]_vars
    /\ [](\A i \in Invocations :
            result[i].status = "returned"
              => /\ result[i].session.address = siweMessage[i].address
                 /\ result[i].session.message = siweMessage[i].text
                 /\ result[i].session.signature = signReply[i].signature
                 /\ signCall[i].statement = siweMessage[i].text
                 /\ genCall[i].address = address[i])

C14_Witness ==
    \E i, j \in Invocations :
        /\ i # j
        /\ pc[i] = "signing" /\ pc[j] = "signing"
        /\ signCall[i].statement # signCall[j].statement

\* C15: in a successful invocation the session layer's materialize operation
\* (tcw.initializeFromSignature) is invoked exactly once, after walletAuth.
C15_MaterializeOnce ==
    \A i \in Invocations :
        result[i].status = "returned"
          => /\ Count(ext[i], "initializeFromSignature") = 1
             /\ \E k, l \in DOMAIN ext[i] :
                  /\ ext[i][k] = "walletAuth"
                  /\ ext[i][l] = "initializeFromSignature"
                  /\ k < l

\* C16 as stated: the message's expirationTime and notBefore are one time
\* read at generation plus 24 hours and minus 1 minute, and the signing
\* request carries the same two instants as the message.
C16_SameWindow ==
    \A i \in Invocations :
        /\ genCall[i].made
             => \E t \in Clock :
                  /\ genCall[i].config.expirationTime.time = t + DayMs
                  /\ genCall[i].config.notBefore.time = t - MinuteMs
        /\ signCall[i].made
             => /\ signCall[i].expirationTime.time
                     = genCall[i].config.expirationTime.time
                /\ signCall[i].notBefore.time = genCall[i].config.notBefore.time

\* C16 amended: the message's expirationTime is the first time read at
\* generation plus 24 hours and its notBefore the second time read at
\* generation minus 1 minute; the signing request's window has the same
\* lengths from the two times read at signing; its instants are not earlier
\* than the message's and equal them only if the clock did not advance.
C16_Windows ==
    \A i \in Invocations :
        /\ genCall[i].made
             => /\ genCall[i].config.expirationTime.time = genCall[i].times[1] + DayMs
                /\ genCall[i].config.notBefore.time = genCall[i].times[2] - MinuteMs
                /\ genCall[i].config.notBefore.time < genCall[i].times[2]
                /\ genCall[i].times[1] < genCall[i].config.expirationTime.time
                /\ genCall[i].times[1] <= genCall[i].times[2]
        /\ signCall[i].made
             => /\ signCall[i].expirationTime.time = signCall[i].times[1] + DayMs
                /\ signCall[i].notBefore.time = signCall[i].times[2] - MinuteMs
                /\ signCall[i].expirationTime.time
                     >= genCall[i].config.expirationTime.time
                /\ signCall[i].notBefore.time >= genCall[i].config.notBefore.time
                /\ (signCall[i].expirationTime.time
                      = genCall[i].config.expirationTime.time)
                     <=> signCall[i].times[1] = genCall[i].times[1]
                /\ (signCall[i].notBefore.time = genCall[i].config.notBefore.time)
                     <=> signCall[i].times[2] = genCall[i].times[2]

C16_Witness ==
    \E i \in Invocations :
        /\ signCall[i].made
        /\ genCall[i].times[1] < genCall[i].times[2]
        /\ genCall[i].times[2] < signCall[i].times[1]

----------------------------------------------------------------------------
(* The TinyCloudAuth component *)

GenericErrorText == <<"Authentication failed. Please try again.">>

\* handleTinyCloudAuth resumes for invocation i in this step
Resumes(i) == i \in handlers /\ handlers' = handlers \ {i}

\* handleTinyCloudAuth starts invocation i in this step
Starts(i) == i \notin handlers /\ handlers' = handlers \cup {i}

\* C17: every failure of performTCWWorldAuth reaches handleTinyCloudAuth as a
\* classified error: when the handler resumes on a failure, the error it
\* displays is "Authentication failed: " followed by the message of the
\* classified error, and the generic text is never displayed.
C17_ClassifiedShown ==
    /\ [][\A i \in Invocations :
            (Resumes(i) /\ result[i].status = "threw") =>
                /\ IsTCWAuthError(result[i].error)
                /\ component'.error = <<"Authentication failed: ",
                                        result[i].error.message>>]_vars
    /\ [](component.error # GenericErrorText)

\* the handler has displayed a failure that the pipeline's own catch classified
C17_Witness ==
    \E i \in Invocations :
        /\ i \notin handlers
        /\ Failed(i, "AUTH_FLOW_ERROR")
        /\ component.error = <<"Authentication failed: ", result[i].error.message>>

\* invocations of performTCWWorldAuth that have started and whose promise has
\* not settled, or whose handler has not resumed yet
InFlight == {i \in Invocations : pc[i] \notin {"idle", "done"} \/ i \in handlers}

\* C18: through the component at most one invocation of performTCWWorldAuth
\* is in flight at any time, and no invocation is called with a null session
\* context.
C18_OneInFlight ==
    /\ Cardinality(InFlight) <= 1
    /\ \A i \in Invocations : pc[i] # "idle" => tcwArg[i] # NullTcw

\* a second invocation is in flight after the first has completed
C18_Witness ==
    \E i, j \in Invocations :
        /\ i # j
        /\ pc[i] = "done"
        /\ i \notin handlers
        /\ j \in handlers
        /\ pc[j] \notin {"idle", "done"}

\* C19: user is non-null exactly when tcwSession is non-null, and then
\* user.walletAddress equals tcwSession.address; a sign-out clears user,
\* tcwSession and error together.
C19_UserIffSession ==
    /\ [](/\ component.user.set <=> component.tcwSession.set
          /\ component.user.set =>
               component.user.walletAddress = component.tcwSession.session.address)
    /\ [][(component.user.set /\ ~component'.user.set) =>
            /\ ~component'.tcwSession.set
            /\ component'.error = NoErrorText]_vars

\* the user has signed out after a successful sign-in
C19_Witness ==
    /\ ~component.user.set
    /\ ~component.tcwSession.set
    /\ \E i \in Invocations : i \notin handlers /\ result[i].status = "returned"

\* C20: loading is true exactly while an invocation started by the component
\* is awaited, and only the completion of that invocation resets it; a failed
\* attempt sets error and leaves user and tcwSession unchanged; starting an
\* attempt sets loading and clears the error.
C20_Loading ==
    /\ [](component.loading <=> handlers # {})
    /\ [](\A i \in handlers : pc[i] # "idle")
    /\ [][(component.loading /\ ~component'.loading) =>
            \E i \in handlers : pc[i] = "done" /\ Resumes(i)]_vars
    /\ [][\A i \in Invocations :
            /\ Resumes(i) => ~component'.loading
            /\ (Resumes(i) /\ result[i].status = "threw") =>
                 /\ component'.error # NoErrorText
                 /\ component'.user = component.user
                 /\ component'.tcwSession = component.tcwSession
            /\ Starts(i) =>
                 /\ component'.loading
                 /\ component'.error = NoErrorText]_vars

\* a new attempt is awaited, the previous one failed, and no error is shown
C20_Witness ==
    \E i, j \in Invocations :
        /\ i # j
        /\ i \notin handlers
        /\ result[i].status = "threw"
        /\ j \in handlers
        /\ component.loading
        /\ component.error = NoErrorText

====
